---- MODULE Spec2Model ----
(***************************************************************************)
(* Model of the translation pipeline in src/main.py:                       *)
(*   extract_text_from_json  - format-sniffing text extraction             *)
(*   clean_response          - removal of model preambles and postambles   *)
(*   translate_segment       - prompt construction and the inference call  *)
(*   main                    - the resumable per-file, per-segment driver  *)
(***************************************************************************)
EXTENDS Integers, Sequences, FiniteSets, TLC

VARIABLES
    config,     \* driver: is config.json present
    data_folder, \* driver: the data folder, a set of [name, content] entries
    result_folder, \* driver: the result folder, output path -> file
    pc,         \* driver: the position of main()
    run,        \* driver: which run of main() this is
    chosen,     \* driver: the profile key selected in each run so far
    files,      \* driver: the listing of line 145
    idx,        \* driver: position in `files` of the file being visited
    segments,   \* driver: the segments of the file in progress
    seg_i,      \* driver: the loop index i of line 171
    fstate,     \* driver: per listed file, its state in this run
    res,        \* driver: per listed file, what translate_segment returned, in order
    ncalls,     \* driver: requests posted to the endpoint in this run
    sent,       \* driver: the payload of the last request
    console,    \* driver: the last line printed
    visited,    \* driver: the files reached by the loop of line 152, in order
    doc,        \* extraction: the content of the file handed to extract_text_from_json
    extracted,  \* extraction: what extract_text_from_json did with it
    raw,        \* sanitizer: the text handed to clean_response
    cleaned     \* sanitizer: clean_response applied once and twice

driverVars == <<config, data_folder, result_folder, pc, run, chosen, files, idx, segments,
                seg_i, fstate,
                res, ncalls, sent, console, visited>>
extractVars == <<doc, extracted>>
cleanVars == <<raw, cleaned>>
vars == <<driverVars, extractVars, cleanVars>>

(***************************************************************************)
(* Bounds of the model.                                                    *)
(***************************************************************************)
MaxItems == 2       \* longest JSON list drawn as an input
MaxTextLen == 4     \* longest text (in tokens) drawn as an input of clean_response
MaxFiles == 2       \* most entries in the data folder
MaxRuns == 2        \* runs of main() on the same folders

(***************************************************************************)
(* Parsed JSON values, as json.load returns them.  A mapping is kept as    *)
(* its key/value pairs in insertion order (Python dictionaries iterate in  *)
(* insertion order); keys are unique.                                      *)
(***************************************************************************)
JStr(s) == [t |-> "str", s |-> s]
JInt(n) == [t |-> "int", n |-> n]
JNull == [t |-> "null"]
JChar == [t |-> "char"]     \* a one-character string met when a string is iterated
JList(items) == [t |-> "list", items |-> items]
JDict(kv) == [t |-> "dict", kv |-> kv]

IsDict(v) == v.t = "dict"
IsList(v) == v.t = "list"
IsStr(v) == v.t = "str"

Keys(d) == [i \in 1..Len(d.kv) |-> d.kv[i][1]]
HasKey(d, k) == \E i \in 1..Len(d.kv) : d.kv[i][1] = k
Get(d, k) == d.kv[CHOOSE i \in 1..Len(d.kv) : d.kv[i][1] = k][2]

\* Python's substring test `sub in s` on the strings the inputs are drawn from.
StrContains(s, sub) == s = sub \/ <<s, sub>> \in {<<"see pages", "pages">>}

\* `key in x` raises TypeError when x is a number or None.
SupportsIn(x) == x.t \in {"dict", "list", "str", "char"}
PyIn(key, x) ==
    CASE x.t = "dict" -> HasKey(x, key)
      [] x.t = "list" -> \E i \in 1..Len(x.items) : x.items[i] = JStr(key)
      [] x.t = "str"  -> StrContains(x.s, key)
      [] OTHER        -> FALSE      \* one character never contains a longer key

\* `x[key]` with a string key raises TypeError unless x is a mapping.
SupportsSubscript(x) == x.t = "dict"

\* `for item in x` raises TypeError when x is a number or None; a mapping
\* yields its keys, a string its characters.
SupportsIter(x) == x.t \in {"dict", "list", "str"}
IterItems(x) ==
    CASE x.t = "list" -> x.items
      [] x.t = "dict" -> [i \in 1..Len(x.kv) |-> JStr(x.kv[i][1])]
      [] x.t = "str"  -> [i \in 1..Len(x.s) |-> JChar]
      [] OTHER        -> <<>>

(***************************************************************************)
(* str(): a string is itself, a number its decimal text, None is "None",   *)
(* a list or mapping its Python repr.                                      *)
(***************************************************************************)
RECURSIVE Str(_), Repr(_), JoinRepr(_), JoinPairs(_)
Repr(v) == IF v.t = "str" THEN "'" \o v.s \o "'" ELSE Str(v)
JoinRepr(items) ==
    IF items = <<>> THEN ""
    ELSE IF Len(items) = 1 THEN Repr(items[1])
    ELSE Repr(items[1]) \o ", " \o JoinRepr(Tail(items))
JoinPairs(kv) ==
    IF kv = <<>> THEN ""
    ELSE LET one == "'" \o kv[1][1] \o "': " \o Repr(kv[1][2])
         IN  IF Len(kv) = 1 THEN one ELSE one \o ", " \o JoinPairs(Tail(kv))
Str(v) ==
    CASE v.t = "str"  -> v.s
      [] v.t = "int"  -> ToString(v.n)
      [] v.t = "null" -> "None"
      [] v.t = "list" -> "[" \o JoinRepr(v.items) \o "]"
      [] v.t = "dict" -> "{" \o JoinPairs(v.kv) \o "}"
      [] OTHER        -> "?"

(***************************************************************************)
(* sorted(data.keys()): strings are ordered by their code points.          *)
(***************************************************************************)
KeyCodes(k) ==
    CASE k = "document"    -> <<100, 111, 99, 117, 109, 101, 110, 116>>
      [] k = "content"     -> <<99, 111, 110, 116, 101, 110, 116>>
      [] k = "total_pages" -> <<116, 111, 116, 97, 108, 95, 112, 97, 103, 101, 115>>
      [] k = "pages"       -> <<112, 97, 103, 101, 115>>
      [] k = "page_1"      -> <<112, 97, 103, 101, 95, 49>>
      [] k = "page_2"      -> <<112, 97, 103, 101, 95, 50>>
      [] k = "page_10"     -> <<112, 97, 103, 101, 95, 49, 48>>
      [] k = "x"           -> <<120>>

RECURSIVE CodesLess(_, _)
CodesLess(a, b) ==
    IF b = <<>> THEN FALSE
    ELSE IF a = <<>> THEN TRUE
    ELSE IF a[1] # b[1] THEN a[1] < b[1]
    ELSE CodesLess(Tail(a), Tail(b))

LexLess(j, k) == CodesLess(KeyCodes(j), KeyCodes(k))

RECURSIVE SortedSeq(_)
SortedSeq(ks) ==
    IF ks = {} THEN <<>>
    ELSE LET least == CHOOSE k \in ks : \A j \in ks \ {k} : LexLess(k, j)
         IN  <<least>> \o SortedSeq(ks \ {least})

InsertionOrderKeys(d) == Keys(d)
sorted_keys(d) == SortedSeq({d.kv[i][1] : i \in 1..Len(d.kv)})

ReservedKeys == {"total_pages", "content", "document"}

(***************************************************************************)
(* extract_text_from_json on a parsed value.  The result records the       *)
(* branch taken, whether an exception was raised inside the try block and  *)
(* the segments collected.                                                 *)
(***************************************************************************)
Outcome(rule, raised, segs) == [rule |-> rule, raised |-> raised, segs |-> segs]

\* Case A, lines 28-33: the first item that raises ends the loop.
RECURSIVE NestedPages(_, _)
NestedPages(items, acc) ==
    IF items = <<>> THEN Outcome("A", FALSE, acc)
    ELSE LET item == items[1]
         IN  IF ~SupportsIn(item) THEN Outcome("A", TRUE, acc)
             ELSE IF ~PyIn("content", item) THEN NestedPages(Tail(items), acc)
             ELSE IF ~SupportsSubscript(item) THEN Outcome("A", TRUE, acc)
             ELSE NestedPages(Tail(items), Append(acc, Str(Get(item, "content"))))

CaseNested(data) ==
    LET d == Get(data, "document")
    IN  IF ~SupportsSubscript(d) THEN Outcome("A", TRUE, <<>>)
        ELSE LET pages == Get(d, "pages")
             IN  IF ~SupportsIter(pages) THEN Outcome("A", TRUE, <<>>)
                 ELSE NestedPages(IterItems(pages), <<>>)

\* Case B, lines 36-42.
RECURSIVE ContentItems(_, _)
ContentItems(items, acc) ==
    IF items = <<>> THEN acc
    ELSE LET item == items[1]
         IN  IF IsDict(item) /\ HasKey(item, "content")
                 THEN ContentItems(Tail(items), Append(acc, Str(Get(item, "content"))))
             ELSE IF IsStr(item) THEN ContentItems(Tail(items), Append(acc, item.s))
             ELSE ContentItems(Tail(items), acc)

CaseContentList(data) ==
    Outcome("B", FALSE, ContentItems(Get(data, "content").items, <<>>))

\* Case C, lines 45-49.
RECURSIVE FlatValues(_, _, _)
FlatValues(data, ks, acc) ==
    IF ks = <<>> THEN acc
    ELSE IF ks[1] \in ReservedKeys THEN FlatValues(data, Tail(ks), acc)
    ELSE FlatValues(data, Tail(ks), Append(acc, Str(Get(data, ks[1]))))

UnsortedFlatMapping(data) ==
    Outcome("C", FALSE, FlatValues(data, InsertionOrderKeys(data), <<>>))
CaseFlatMapping(data) ==
    Outcome("C", FALSE, FlatValues(data, sorted_keys(data), <<>>))

\* Case D, lines 52-53.
CaseFlatSequence(data) ==
    Outcome("D", FALSE, [i \in 1..Len(data.items) |-> Str(data.items[i])])

\* Fallback, lines 55-56.
CaseFallback(data) == Outcome("E", FALSE, <<Str(data)>>)

\* The if/elif chain of lines 28-56.  The test of line 28 evaluates
\* `'pages' in data['document']` and so raises when the document value is a
\* number or None.
ExtractParsed(data) ==
    IF IsDict(data) /\ HasKey(data, "document") /\ ~SupportsIn(Get(data, "document"))
        THEN Outcome("A", TRUE, <<>>)
    ELSE IF IsDict(data) /\ HasKey(data, "document") /\ PyIn("pages", Get(data, "document"))
        THEN CaseNested(data)
    ELSE IF IsDict(data) /\ HasKey(data, "content") /\ IsList(Get(data, "content"))
        THEN CaseContentList(data)
    ELSE IF IsDict(data) THEN CaseFlatMapping(data)
    ELSE IF IsList(data) THEN CaseFlatSequence(data)
    ELSE CaseFallback(data)

(***************************************************************************)
(* A file on disk: unreadable (open fails), not JSON (json.load raises     *)
(* JSONDecodeError), or JSON text parsing to a value.                      *)
(***************************************************************************)
Unreadable == [k |-> "unreadable"]
Malformed == [k |-> "malformed"]
JsonFile(v) == [k |-> "json", v |-> v]

\* Lines 20-65: what happened inside the try block.
ExtractTrace(file) ==
    CASE file.k = "unreadable" -> Outcome("open", TRUE, <<>>)
      [] file.k = "malformed"  -> Outcome("parse", TRUE, <<>>)
      [] OTHER                 -> ExtractParsed(file.v)

\* Lines 58-65: the segments on a normal return, [] from either handler.
extract_text_from_json(file) ==
    LET o == ExtractTrace(file) IN IF o.raised THEN <<>> ELSE o.segs

(***************************************************************************)
(* Text handled by clean_response.  A text is a sequence of tokens, each   *)
(* token standing for the characters it spells; the text is their          *)
(* concatenation.  The phrases of the patterns are split so that every     *)
(* pattern matches on token boundaries.                                    *)
(***************************************************************************)
SP == " "
NL == "\n"
COLON == ":"
HereIsThe == "Here is the"
HeresThe == "Here's the"
SureHereIs == "Sure, here is"
TranslationWord == "Translation"
WordForWord == "word-for-word"
NoteWord == "Note"
TheTranslationIsWfw == "The translation is word-for-word"
IHave == "I have"
PleaseLetMeKnow == "Please let me know"

Alphabet ==
    {SP, NL, COLON, HereIsThe, HeresThe, SureHereIs, TranslationWord, WordForWord,
     NoteWord, TheTranslationIsWfw, IHave, PleaseLetMeKnow, "Hallo"}

Whitespace == {SP, NL}

\* Tokens in which "translation" occurs (the patterns ignore case).
HasTranslation(tok) == tok \in {TranslationWord, TheTranslationIsWfw}

\* str.strip(): leading and trailing whitespace removed.
RECURSIVE LStrip(_), RStrip(_)
LStrip(t) == IF t # <<>> /\ t[1] \in Whitespace THEN LStrip(Tail(t)) ELSE t
RStrip(t) ==
    IF t # <<>> /\ t[Len(t)] \in Whitespace THEN RStrip(SubSeq(t, 1, Len(t) - 1)) ELSE t
Strip(t) == RStrip(LStrip(t))

\* The lines of a text: "." matches no newline and, under re.MULTILINE, "^"
\* matches at the start of every line, so each line is rewritten on its own.
RECURSIVE SplitLines(_, _)
SplitLines(t, cur) ==
    IF t = <<>> THEN <<cur>>
    ELSE IF t[1] = NL THEN <<cur>> \o SplitLines(Tail(t), <<>>)
    ELSE SplitLines(Tail(t), Append(cur, t[1]))

RECURSIVE JoinLines(_)
JoinLines(ls) ==
    IF Len(ls) = 1 THEN ls[1] ELSE ls[1] \o <<NL>> \o JoinLines(Tail(ls))

StartsWith(line, lit) == Len(line) >= Len(lit) /\ SubSeq(line, 1, Len(lit)) = lit
Drop(line, n) == SubSeq(line, n + 1, Len(line))

\* Position of the first ":" after position `from`, 0 when there is none.
FirstColonAfter(line, from) ==
    IF \E k \in (from + 1)..Len(line) : line[k] = COLON
        THEN CHOOSE k \in (from + 1)..Len(line) :
                line[k] = COLON /\ \A j \in (from + 1)..(k - 1) : line[j] # COLON
    ELSE 0

\* Length of the match of a prefix pattern at the start of a line, 0 for none.
\*   1  ^Here is the.*?translation.*?:
\*   2  ^Sure, here is.*?:
\*   3  ^Here is the word-for-word.*?:
\*   4  ^Translation:
\*   5  ^Here's the translation.*?
PrefixMatch(p, line) ==
    CASE p = 1 ->
            IF StartsWith(line, <<HereIsThe>>)
               /\ \E j \in 2..Len(line) : HasTranslation(line[j])
                THEN LET j == CHOOSE j \in 2..Len(line) :
                                HasTranslation(line[j])
                                /\ \A i \in 2..(j - 1) : ~HasTranslation(line[i])
                     IN  FirstColonAfter(line, j)
            ELSE 0
      [] p = 2 -> IF StartsWith(line, <<SureHereIs>>) THEN FirstColonAfter(line, 1) ELSE 0
      [] p = 3 ->
            IF StartsWith(line, <<HereIsThe, SP, WordForWord>>)
                THEN FirstColonAfter(line, 3) ELSE 0
      [] p = 4 -> IF StartsWith(line, <<TranslationWord, COLON>>) THEN 2 ELSE 0
      [] p = 5 -> IF StartsWith(line, <<HeresThe, SP, TranslationWord>>) THEN 3 ELSE 0

\* The phrase a suffix pattern starts with; ".*" then runs to the end of the line.
\*   1  Note: The translation is word-for-word.*
\*   2  Note: I have.*
\*   3  Please let me know.*
SuffixPhrase(s) ==
    CASE s = 1 -> <<NoteWord, COLON, SP, TheTranslationIsWfw>>
      [] s = 2 -> <<NoteWord, COLON, SP, IHave>>
      [] s = 3 -> <<PleaseLetMeKnow>>

\* Position where the suffix pattern first matches in a line, 0 for none.
SuffixMatch(s, line) ==
    LET lit == SuffixPhrase(s)
        At(i) == i + Len(lit) - 1 <= Len(line) /\ SubSeq(line, i, i + Len(lit) - 1) = lit
    IN  IF \E i \in 1..Len(line) : At(i)
            THEN CHOOSE i \in 1..Len(line) : At(i) /\ \A j \in 1..(i - 1) : ~At(j)
        ELSE 0

PrefixPatterns == <<1, 2, 3, 4, 5>>
SuffixPatterns == <<1, 2, 3>>

\* re.sub(p, "", text, flags=re.IGNORECASE | re.MULTILINE) for one pattern.
SubPrefix(p, text) ==
    LET ls == SplitLines(text, <<>>)
    IN  JoinLines([i \in 1..Len(ls) |-> Drop(ls[i], PrefixMatch(p, ls[i]))])

SubSuffix(s, text) ==
    LET ls == SplitLines(text, <<>>)
        Cut(line) == LET m == SuffixMatch(s, line)
                     IN  IF m = 0 THEN line ELSE SubSeq(line, 1, m - 1)
    IN  JoinLines([i \in 1..Len(ls) |-> Cut(ls[i])])

\* Does any pattern still find something to remove in the text?
AnyPatternMatches(text) ==
    LET ls == SplitLines(text, <<>>)
    IN  \E i \in 1..Len(ls) :
            \/ \E p \in 1..Len(PrefixPatterns) : PrefixMatch(PrefixPatterns[p], ls[i]) > 0
            \/ \E s \in 1..Len(SuffixPatterns) : SuffixMatch(SuffixPatterns[s], ls[i]) > 0

\* Lines 77-80: each pattern once, in order, stripping after each.
RECURSIVE ApplyPrefixes(_, _), ApplySuffixes(_, _)
ApplyPrefixes(ps, text) ==
    IF ps = <<>> THEN text ELSE ApplyPrefixes(Tail(ps), Strip(SubPrefix(ps[1], text)))
ApplySuffixes(ss, text) ==
    IF ss = <<>> THEN text ELSE ApplySuffixes(Tail(ss), Strip(SubSuffix(ss[1], text)))

\* The input of clean_response: a text, or nothing (None).
Absent == [absent |-> TRUE, text |-> <<>>]
Text(t) == [absent |-> FALSE, text |-> t]

\* A sanitizer that strips the text before each substitution, not after it.
RECURSIVE PrefixesStripFirst(_, _), SuffixesStripFirst(_, _)
PrefixesStripFirst(ps, text) ==
    IF ps = <<>> THEN text ELSE PrefixesStripFirst(Tail(ps), SubPrefix(ps[1], Strip(text)))
SuffixesStripFirst(ss, text) ==
    IF ss = <<>> THEN text ELSE SuffixesStripFirst(Tail(ss), SubSuffix(ss[1], Strip(text)))
CleanStripFirst(x) ==
    IF x.absent \/ x.text = <<>> THEN <<>>
    ELSE SuffixesStripFirst(SuffixPatterns, PrefixesStripFirst(PrefixPatterns, x.text))

\* Lines 68-81.
clean_response(x) ==
    IF x.absent \/ x.text = <<>> THEN <<>>
    ELSE ApplySuffixes(SuffixPatterns, ApplyPrefixes(PrefixPatterns, x.text))

(***************************************************************************)
(* Inputs of the extraction: files of every recognised shape and of the    *)
(* shapes around them.                                                     *)
(***************************************************************************)
SeqsUpTo(S, n) == UNION {[1..k -> S] : k \in 0..n}

Scalars == {JStr("A"), JStr("see pages"), JInt(5), JNull}
PageItems ==
    {JStr("A"), JStr("content"), JInt(5), JDict(<<<<"content", JStr("A")>>>>),
     JDict(<<<<"content", JInt(2)>>>>), JDict(<<<<"x", JStr("B")>>>>)}
ItemLists == SeqsUpTo(PageItems, MaxItems)
PagesValues ==
    {JList(l) : l \in ItemLists} \cup Scalars \cup {JDict(<<<<"content", JStr("A")>>>>)}
DocumentValues ==
    Scalars \cup {JList(<<JStr("pages")>>), JDict(<<<<"x", JStr("B")>>>>)}
    \cup {JDict(<<<<"pages", p>>>>) : p \in PagesValues}
ContentItemsIn == {JStr("Welt"), JInt(5), JDict(<<<<"content", JStr("Hallo")>>>>)}
ContentValues == {JStr("A")} \cup {JList(l) : l \in SeqsUpTo(ContentItemsIn, MaxItems)}
DocumentParts == {<<>>} \cup {<<<<"document", d>>>> : d \in DocumentValues}
ContentParts == {<<>>} \cup {<<<<"content", c>>>> : c \in ContentValues}
PageParts ==
    {<<>>,
     <<<<"page_1", JStr("A")>>>>,
     <<<<"page_2", JStr("B")>>, <<"page_1", JStr("A")>>, <<"total_pages", JInt(2)>>>>,
     <<<<"page_2", JStr("B")>>, <<"page_10", JStr("C")>>, <<"page_1", JStr("A")>>>>,
     <<<<"x", JList(<<JInt(1), JStr("a"), JNull>>)>>, <<"pages", JInt(5)>>>>}
TopDicts ==
    {JDict(d \o c \o p) : d \in DocumentParts, c \in ContentParts, p \in PageParts}
JsonValues == Scalars \cup {JList(l) : l \in ItemLists} \cup TopDicts
ExtractInputs == {Unreadable, Malformed} \cup {JsonFile(v) : v \in JsonValues}

(***************************************************************************)
(* Inputs of the sanitizer.                                                *)
(***************************************************************************)
CleanInputs == {Absent} \cup {Text(t) : t \in SeqsUpTo(Alphabet, MaxTextLen)}

(***************************************************************************)
(* Configuration (config.json, read by load_config) and the operator.      *)
(***************************************************************************)
ModelKeys == {"1", "2"}
ModelInfo(key) ==
    CASE key = "1" -> [name |-> "German to English", base_model |-> "GTE-llama3",
                       file_suffix |-> "_en"]
      [] key = "2" -> [name |-> "German to Urdu", base_model |-> "GTU-llama3",
                       file_suffix |-> "_ur"]
OperatorInputs == ModelKeys \cup {"x"}

\* `"GTE" in model_name`, `"GTU" in model_name` on the configured identifiers.
NameContains(model_name, marker) ==
    <<model_name, marker>> \in {<<"GTE-llama3", "GTE">>, <<"GTU-llama3", "GTU">>}

\* Lines 86-104.
forced_prompt(text, model_name) ==
    IF NameContains(model_name, "GTE")
        THEN "Translate the following German text into English. "
             \o "Provide a complete, accurate translation. "
             \o "Do NOT summarize. "
             \o "Do NOT skip any details. "
             \o "Output ONLY the translated text:\n\n" \o text
    ELSE IF NameContains(model_name, "GTU")
        THEN "Translate the following German text into Urdu. "
             \o "Provide a complete, accurate translation. "
             \o "Do NOT summarize. "
             \o "Output ONLY the translated text:\n\n" \o text
    ELSE text

\* Line 106.
Payload(text, model_name) ==
    [model |-> model_name, prompt |-> forced_prompt(text, model_name), stream |-> FALSE]
NoPayload == [model |-> "", prompt |-> "", stream |-> FALSE]

(***************************************************************************)
(* The endpoint: the request raises (transport, status or decoding), or    *)
(* the body carries a response text, possibly none.                        *)
(***************************************************************************)
EndpointError == [error |-> TRUE, response |-> Absent]
Reply(x) == [error |-> FALSE, response |-> x]
EndpointOutcomes ==
    {EndpointError, Reply(Text(<<>>)), Reply(Text(<<TranslationWord, COLON>>)),
     Reply(Text(<<"Hello">>)), Reply(Text(<<TranslationWord, COLON, SP, "World">>))}

\* What translate_segment returns: None, or the sanitized text.
None == [none |-> TRUE, text |-> <<>>]
Some(t) == [none |-> FALSE, text |-> t]

\* Lines 108-114.
translate_segment(outcome) ==
    IF outcome.error THEN None ELSE Some(clean_response(outcome.response))

\* Everything translate_segment can return, over the outcomes of the endpoint.
Translations == {translate_segment(outcome) : outcome \in EndpointOutcomes}

\* `if translation:` (line 175): neither None nor the empty string.
Truthy(translation) == ~translation.none /\ translation.text # <<>>

(***************************************************************************)
(* File names and the result folder.  A name is a sequence of parts; the   *)
(* extension is a part of its own.                                         *)
(***************************************************************************)
JsonExt == ".json"
TxtExt == ".txt"
EndsWithJson(name) == name # <<>> /\ name[Len(name)] = JsonExt

\* str.replace: every occurrence is replaced.
RECURSIVE ReplaceAll(_, _, _)
ReplaceAll(name, old, new) ==
    IF name = <<>> THEN <<>>
    ELSE (IF name[1] = old THEN new ELSE <<name[1]>>) \o ReplaceAll(Tail(name), old, new)

\* A renaming that replaces the extension only.
ReplaceExtension(filename, suffix) ==
    SubSeq(filename, 1, Len(filename) - 1) \o <<suffix, TxtExt>>

\* Line 154.
output_filename(filename, suffix) == ReplaceAll(filename, JsonExt, <<suffix, TxtExt>>)

NoFile == [exists |-> FALSE, chunks |-> <<>>]
File(chunks) == [exists |-> TRUE, chunks |-> chunks]

\* os.path.exists that never finds the file.
NeverExists(path) == FALSE
\* Line 157.
OutputExists(path) == result_folder[path].exists

\* A driver that leaves no marker before the first page is written.
NoMarker(path) == result_folder
\* open(path, 'w'); f.write(""): the file exists and is empty (lines 168-169).
CreateEmpty(path) == [result_folder EXCEPT ![path] = File(<<>>)]

\* A page header numbered from the loop index, not from i+1.
ZeroIndexedBlock(n, translation) ==
    "--- Page " \o ToString(n - 1) \o " ---\n" \o translation \o "\n\n"
\* Line 177.
PageBlock(n, translation) ==
    "--- Page " \o ToString(n) \o " ---\n" \o translation \o "\n\n"

RECURSIVE Concat(_)
Concat(chunks) == IF chunks = <<>> THEN "" ELSE chunks[1] \o Concat(Tail(chunks))

\* open(path, 'w') in place of open(path, 'a').
TruncatingWrite(path, block) == [result_folder EXCEPT ![path] = File(<<block>>)]
\* open(path, 'a'); f.write(block) (lines 176-177).
AppendTo(path, block) ==
    [result_folder EXCEPT ![path] = File(Append(result_folder[path].chunks, block))]

(***************************************************************************)
(* The data folder and the result folder the runs start from.              *)
(***************************************************************************)
DocHalloWelt ==
    JDict(<<<<"content", JList(<<JDict(<<<<"content", JStr("Hallo")>>>>), JStr("Welt")>>)>>>>)
DocPages ==
    JDict(<<<<"page_2", JStr("B")>>, <<"page_1", JStr("A")>>, <<"total_pages", JInt(2)>>>>)
DocBadDocument == JDict(<<<<"document", JInt(5)>>, <<"page_1", JStr("A")>>>>)
DocScalar == JStr("Hallo")
DocThree == JList(<<JStr("X"), JStr("Y"), JStr("Z")>>)

Doc1Name == <<"doc1", JsonExt>>
Doc2Name == <<"doc2", JsonExt>>
DoubleExtName == <<"doc1", JsonExt, JsonExt>>
NotesName == <<"notes", TxtExt>>

Entry(name, content) == [name |-> name, content |-> content]
FolderEntries ==
    {Entry(Doc1Name, JsonFile(DocHalloWelt)), Entry(Doc1Name, Malformed),
     Entry(Doc2Name, JsonFile(DocThree)), Entry(Doc2Name, JsonFile(DocBadDocument)),
     Entry(DoubleExtName, JsonFile(DocScalar)), Entry(NotesName, Unreadable)}
DataFolders ==
    {f \in SUBSET FolderEntries :
        /\ Cardinality(f) <= MaxFiles
        /\ \A a, b \in f : a.name = b.name => a = b}

OutputPaths ==
    {output_filename(e.name, ModelInfo(k).file_suffix) :
        e \in {x \in FolderEntries : EndsWithJson(x.name)}, k \in ModelKeys}
\* Outputs an earlier job may have left: an empty marker, or a partial file.
StaleOutputs ==
    {<<output_filename(Doc1Name, "_en"), <<>>>>,
     <<output_filename(Doc1Name, "_en"), <<"--- Page 1 ---\nAlt\n\n">>>>,
     <<output_filename(Doc2Name, "_ur"), <<"--- Page 1 ---\nAlt\n\n">>>>}
ResultFolders ==
    {[p \in OutputPaths |-> NoFile]}
    \cup {[p \in OutputPaths |-> IF p = st[1] THEN File(st[2]) ELSE NoFile] :
            st \in StaleOutputs}

\* Line 145: the entries whose name ends in .json, in the order os.listdir gives.
JsonNames(folder) == {e.name : e \in {x \in folder : EndsWithJson(x.name)}}
Listings(folder) ==
    LET names == JsonNames(folder)
    IN  {l \in [1..Cardinality(names) -> names] :
            \A a, b \in 1..Cardinality(names) : a # b => l[a] # l[b]}

ContentOf(name) == (CHOOSE e \in data_folder : e.name = name).content

selected_model == ModelInfo(chosen[Len(chosen)])
filename == files[idx]
output_path == output_filename(filename, selected_model.file_suffix)

\* `if not segments` (line 164) that is never taken.
NeverNoText(segs) == FALSE
\* Line 164.
NoText(segs) == segs = <<>>

\* `if not translation: break`.
AnyFalsy(translation) == ~Truthy(translation)
\* Line 181.
IsFailureSignal(translation) == translation.none

\* A break that leaves the loop over the files as well.
PastLastFile(k) == Len(files) + 1
\* Line 181: break ends the segment loop, and the loop of line 152 goes on.
AfterBreak(k) == k + 1

(***************************************************************************)
(* main()                                                                  *)
(***************************************************************************)
DriverInit ==
    /\ config \in BOOLEAN
    /\ data_folder \in DataFolders
    /\ result_folder \in ResultFolders
    /\ pc = "load_config"
    /\ run = 1
    /\ chosen = <<>>
    /\ files = <<>>
    /\ idx = 0
    /\ segments = <<>>
    /\ seg_i = 0
    /\ fstate = <<>>
    /\ res = <<>>
    /\ ncalls = 0
    /\ sent = NoPayload
    /\ console = ""
    /\ visited = <<>>

\* Lines 118-119, 12-14: no config.json, the run ends at once.
ConfigMissing ==
    /\ pc = "load_config"
    /\ ~config
    /\ console' = "CRITICAL ERROR: config.json not found"
    /\ pc' = "returned"
    /\ UNCHANGED <<config, data_folder, result_folder, run, chosen, files, idx, segments,
                   seg_i, fstate, res, ncalls, sent, visited>>
    /\ UNCHANGED <<extractVars, cleanVars>>

\* Lines 118-134: the configuration is read and the menu printed.
ConfigLoaded ==
    /\ pc = "load_config"
    /\ config
    /\ console' = "Select Translation Mode:"
    /\ pc' = "select"
    /\ UNCHANGED <<config, data_folder, result_folder, run, chosen, files, idx, segments,
                   seg_i, fstate, res, ncalls, sent, visited>>
    /\ UNCHANGED <<extractVars, cleanVars>>

\* Lines 136-140: an input that is no key of the models is asked again.
RejectChoice ==
    /\ pc = "select"
    /\ \E choice \in OperatorInputs \ ModelKeys :
        console' = "is not valid. Please type just the number 1 or 2."
    /\ UNCHANGED <<config, data_folder, result_folder, pc, run, chosen, files, idx,
                   segments, seg_i, fstate, res, ncalls, sent, visited>>
    /\ UNCHANGED <<extractVars, cleanVars>>

\* Lines 136-143.  In a later run the operator selects the profile of the
\* first run again: the runs modelled are re-runs of the same job.
SelectProfile ==
    /\ pc = "select"
    /\ \E choice \in ModelKeys :
        /\ IF run = 1 THEN TRUE ELSE choice = chosen[1]
        /\ chosen' = Append(chosen, choice)
    /\ pc' = "list"
    /\ UNCHANGED <<config, data_folder, result_folder, run, files, idx, segments, seg_i,
                   fstate, res, ncalls, sent, console, visited>>
    /\ UNCHANGED <<extractVars, cleanVars>>

\* Lines 145-148.
ListNoFiles ==
    /\ pc = "list"
    /\ JsonNames(data_folder) = {}
    /\ console' = "No .json files found"
    /\ pc' = "returned"
    /\ UNCHANGED <<config, data_folder, result_folder, run, chosen, files, idx, segments,
                   seg_i, fstate, res, ncalls, sent, visited>>
    /\ UNCHANGED <<extractVars, cleanVars>>

\* Lines 145-150.
ListFiles ==
    /\ pc = "list"
    /\ JsonNames(data_folder) # {}
    /\ \E listing \in Listings(data_folder) :
        /\ files' = listing
        /\ fstate' = [k \in 1..Len(listing) |-> "PENDING"]
        /\ res' = [k \in 1..Len(listing) |-> <<>>]
    /\ idx' = 1
    /\ console' = "Found files to process."
    /\ pc' = "loop"
    /\ UNCHANGED <<config, data_folder, result_folder, run, chosen, segments, seg_i,
                   ncalls, sent, visited>>
    /\ UNCHANGED <<extractVars, cleanVars>>

\* Lines 152-159.
SkipFile ==
    /\ pc = "loop"
    /\ idx <= Len(files)
    /\ OutputExists(output_path)
    /\ fstate' = [fstate EXCEPT ![idx] = "SKIPPED"]
    /\ visited' = Append(visited, filename)
    /\ console' = "[SKIP] already translated."
    /\ idx' = idx + 1
    /\ UNCHANGED <<config, data_folder, result_folder, pc, run, chosen, files, segments,
                   seg_i, res, ncalls, sent>>
    /\ UNCHANGED <<extractVars, cleanVars>>

\* Lines 152-166.
NoTextFile ==
    /\ pc = "loop"
    /\ idx <= Len(files)
    /\ ~OutputExists(output_path)
    /\ NoText(extract_text_from_json(ContentOf(filename)))
    /\ fstate' = [fstate EXCEPT ![idx] = "NO_TEXT"]
    /\ visited' = Append(visited, filename)
    /\ console' = "[WARNING] No text found in file."
    /\ idx' = idx + 1
    /\ UNCHANGED <<config, data_folder, result_folder, pc, run, chosen, files, segments,
                   seg_i, res, ncalls, sent>>
    /\ UNCHANGED <<extractVars, cleanVars>>

\* Lines 152-171: the output is created empty and the segment loop entered; a
\* loop over no segments ends at once.
BeginFile ==
    /\ pc = "loop"
    /\ idx <= Len(files)
    /\ ~OutputExists(output_path)
    /\ LET segs == extract_text_from_json(ContentOf(filename))
       IN  /\ ~NoText(segs)
           /\ segments' = segs
           /\ IF segs = <<>>
                  THEN /\ fstate' = [fstate EXCEPT ![idx] = "COMPLETED"]
                       /\ idx' = idx + 1
                       /\ pc' = "loop"
                  ELSE /\ fstate' = [fstate EXCEPT ![idx] = "IN_PROGRESS"]
                       /\ idx' = idx
                       /\ pc' = "segment"
    /\ result_folder' = CreateEmpty(output_path)
    /\ seg_i' = 0
    /\ visited' = Append(visited, filename)
    /\ console' = "Processing"
    /\ UNCHANGED <<config, data_folder, run, chosen, files, res, ncalls, sent>>
    /\ UNCHANGED <<extractVars, cleanVars>>

\* Line 173: the request is posted and translate_segment returns.
Called(translation) ==
    /\ res' = [res EXCEPT ![idx] = Append(@, translation)]
    /\ ncalls' = ncalls + 1
    /\ sent' = Payload(segments[seg_i + 1], selected_model.base_model)

\* Line 171: the next iteration, or the end of the loop and the next file.
NextSegment ==
    /\ seg_i' = seg_i + 1
    /\ IF seg_i + 1 = Len(segments)
           THEN /\ fstate' = [fstate EXCEPT ![idx] = "COMPLETED"]
                /\ idx' = idx + 1
                /\ pc' = "loop"
           ELSE UNCHANGED <<fstate, idx, pc>>

\* Lines 171-178: a translation was returned and its page block appended.
SegmentDone ==
    /\ pc = "segment"
    /\ \E translation \in Translations :
        /\ Truthy(translation)
        /\ Called(translation)
        /\ result_folder' =
             AppendTo(output_path, PageBlock(seg_i + 1, Concat(translation.text)))
    /\ console' = " Done."
    /\ NextSegment
    /\ UNCHANGED <<config, data_folder, run, chosen, files, segments, visited>>
    /\ UNCHANGED <<extractVars, cleanVars>>

\* Lines 171-181: an empty translation; nothing is written, the loop goes on.
SegmentBlank ==
    /\ pc = "segment"
    /\ \E translation \in Translations :
        /\ ~Truthy(translation)
        /\ ~IsFailureSignal(translation)
        /\ Called(translation)
    /\ console' = " Failed."
    /\ NextSegment
    /\ UNCHANGED <<config, data_folder, result_folder, run, chosen, files, segments,
                   visited>>
    /\ UNCHANGED <<extractVars, cleanVars>>

\* Lines 171-181: the failure signal; the rest of the file is left out.
SegmentFailed ==
    /\ pc = "segment"
    /\ \E translation \in Translations :
        /\ ~Truthy(translation)
        /\ IsFailureSignal(translation)
        /\ Called(translation)
    /\ console' = " Failed."
    /\ fstate' = [fstate EXCEPT ![idx] = "ABORTED"]
    /\ idx' = AfterBreak(idx)
    /\ pc' = "loop"
    /\ UNCHANGED <<config, data_folder, result_folder, run, chosen, files, segments,
                   seg_i, visited>>
    /\ UNCHANGED <<extractVars, cleanVars>>

\* Line 183.
Finish ==
    /\ pc = "loop"
    /\ idx > Len(files)
    /\ console' = "All jobs completed."
    /\ pc' = "returned"
    /\ UNCHANGED <<config, data_folder, result_folder, run, chosen, files, idx, segments,
                   seg_i, fstate, res, ncalls, sent, visited>>
    /\ UNCHANGED <<extractVars, cleanVars>>

\* Lines 184-185: main() is run again on the folders as the last run left them.
RunAgain ==
    /\ pc = "returned"
    /\ run < MaxRuns
    /\ run' = run + 1
    /\ UNCHANGED chosen
    /\ pc' = "load_config"
    /\ files' = <<>>
    /\ idx' = 0
    /\ segments' = <<>>
    /\ seg_i' = 0
    /\ fstate' = <<>>
    /\ res' = <<>>
    /\ ncalls' = 0
    /\ sent' = NoPayload
    /\ console' = ""
    /\ visited' = <<>>
    /\ UNCHANGED <<config, data_folder, result_folder>>
    /\ UNCHANGED <<extractVars, cleanVars>>

NotExtracted == [done |-> FALSE, trace |-> Outcome("", FALSE, <<>>), result |-> <<>>]
NotCleaned == [n |-> 0, once |-> <<>>, twice |-> <<>>]
ExtractIdle == doc = Unreadable /\ extracted = NotExtracted
CleanIdle == raw = Absent /\ cleaned = NotCleaned
DriverIdle ==
    /\ config = FALSE
    /\ data_folder = {}
    /\ result_folder = [p \in OutputPaths |-> NoFile]
    /\ pc = "off"
    /\ run = 1
    /\ chosen = <<>>
    /\ files = <<>>
    /\ idx = 0
    /\ segments = <<>>
    /\ seg_i = 0
    /\ fstate = <<>>
    /\ res = <<>>
    /\ ncalls = 0
    /\ sent = NoPayload
    /\ console = ""
    /\ visited = <<>>

Init == DriverInit /\ ExtractIdle /\ CleanIdle

Next ==
    \/ ConfigMissing
    \/ ConfigLoaded
    \/ RejectChoice
    \/ SelectProfile
    \/ ListNoFiles
    \/ ListFiles
    \/ SkipFile
    \/ NoTextFile
    \/ BeginFile
    \/ SegmentDone
    \/ SegmentBlank
    \/ SegmentFailed
    \/ Finish
    \/ RunAgain

Spec == Init /\ [][Next]_vars

\* The interpreter runs main() to its end: a step that can be taken is taken.
FairSpec == Spec /\ WF_vars(Next)

(***************************************************************************)
(* extract_text_from_json on its own: one file, one call.                  *)
(***************************************************************************)
ExtractInit ==
    /\ DriverIdle
    /\ CleanIdle
    /\ doc \in ExtractInputs
    /\ extracted = NotExtracted

CallExtract ==
    /\ ~extracted.done
    /\ extracted' = [done |-> TRUE, trace |-> ExtractTrace(doc),
                     result |-> extract_text_from_json(doc)]
    /\ UNCHANGED <<doc, driverVars, cleanVars>>

SpecExtract == ExtractInit /\ [][CallExtract]_vars

(***************************************************************************)
(* clean_response on its own: applied to a text, then to its own result.   *)
(***************************************************************************)
CleanInit ==
    /\ DriverIdle
    /\ ExtractIdle
    /\ raw \in CleanInputs
    /\ cleaned = NotCleaned

CleanOnce ==
    /\ cleaned.n = 0
    /\ cleaned' = [n |-> 1, once |-> clean_response(raw), twice |-> <<>>]
    /\ UNCHANGED <<raw, driverVars, extractVars>>

CleanTwice ==
    /\ cleaned.n = 1
    /\ cleaned' = [cleaned EXCEPT !.n = 2, !.twice = clean_response(Text(cleaned.once))]
    /\ UNCHANGED <<raw, driverVars, extractVars>>

CleanNext == CleanOnce \/ CleanTwice

SpecClean == CleanInit /\ [][CleanNext]_vars

(***************************************************************************)
(* Properties.                                                             *)
(***************************************************************************)
States == {"PENDING", "SKIPPED", "NO_TEXT", "IN_PROGRESS", "COMPLETED", "ABORTED"}
Listed == 1..Len(files)
SegmentsOf(name) == extract_text_from_json(ContentOf(name))
PathOf(k) == output_filename(files[k], selected_model.file_suffix)
Written(k) == Concat(result_folder[PathOf(k)].chunks)
IsPrefix(a, b) == Len(a) <= Len(b) /\ SubSeq(b, 1, Len(a)) = a

\* "--- Page j ---\n" + t_j + "\n\n" for j = 1..n, in increasing order.
RECURSIVE AllPages(_, _)
AllPages(rs, n) ==
    IF n = 0 THEN ""
    ELSE AllPages(rs, n - 1)
         \o "--- Page " \o ToString(n) \o " ---\n" \o Concat(rs[n].text) \o "\n\n"

\* The same, for the j whose translation is a non-empty text only.
RECURSIVE WrittenPages(_, _)
WrittenPages(rs, n) ==
    IF n = 0 THEN ""
    ELSE IF rs[n].none \/ rs[n].text = <<>> THEN WrittenPages(rs, n - 1)
    ELSE WrittenPages(rs, n - 1)
         \o "--- Page " \o ToString(n) \o " ---\n" \o Concat(rs[n].text) \o "\n\n"

RECURSIVE TotalCalls(_)
TotalCalls(rss) == IF rss = <<>> THEN 0 ELSE Len(rss[1]) + TotalCalls(Tail(rss))

\* A later run of main(), with a profile selected, has returned.
LaterRunEnded == run >= 2 /\ pc = "returned" /\ Len(chosen) = run

C2_ExactlyPriorPages ==
    \A k \in Listed :
        fstate[k] = "ABORTED" =>
            /\ res[k][Len(res[k])].none
            /\ Written(k) = AllPages(res[k], Len(res[k]) - 1)

\* C2 amended: when translate_segment returns None on segment k, the output
\* file holds exactly the page blocks of those segments before k whose
\* translation was a non-empty text, and no block of a page from k on.
C2_PriorPagesRetained ==
    \A k \in Listed :
        fstate[k] = "ABORTED" =>
            /\ res[k][Len(res[k])].none
            /\ Written(k) = WrittenPages(res[k], Len(res[k]) - 1)

C2_Witness ==
    \E k \in Listed :
        /\ fstate[k] = "ABORTED"
        /\ Len(SegmentsOf(files[k])) = 3
        /\ Len(res[k]) = 3
        /\ Written(k) = "--- Page 1 ---\nHello\n\n--- Page 2 ---\nWorld\n\n"

\* C3: an output file is append-only over every step of every run: a file
\* that exists still exists after the step and its old content is a prefix
\* of the new; a file whose output exists when it is reached goes straight
\* to SKIPPED with the result folder unchanged.
C3_AppendOnly ==
    [][ /\ \A p \in OutputPaths :
              result_folder[p].exists =>
                  /\ result_folder'[p].exists
                  /\ IsPrefix(result_folder[p].chunks, result_folder'[p].chunks)
        /\ (pc = "loop" /\ idx <= Len(files) /\ result_folder[output_path].exists) =>
              /\ fstate'[idx] = "SKIPPED"
              /\ result_folder' = result_folder
      ]_vars

C3_Witness ==
    \E k \in Listed :
        /\ run = 1
        /\ fstate[k] = "SKIPPED"
        /\ SegmentsOf(files[k]) # <<>>
        /\ result_folder[PathOf(k)] = File(<<"--- Page 1 ---\nAlt\n\n">>)

C5_AlwaysReportsCompleted ==
    (pc = "returned" /\ Len(chosen) = run) =>
        /\ visited = files
        /\ console = "All jobs completed."

\* C5 amended: with the configuration present, a profile selected and at
\* least one .json file listed, the run visits every listed file exactly
\* once, whatever state the files before it ended in, and terminates by
\* reporting "All jobs completed".
C5_RunCompletion ==
    /\ [](  (pc = "returned" /\ Len(chosen) = run /\ JsonNames(data_folder) # {}) =>
              /\ visited = files
              /\ \A a, b \in Listed : a # b => files[a] # files[b]
              /\ {files[k] : k \in Listed} = JsonNames(data_folder)
              /\ \A k \in Listed : fstate[k] \in {"SKIPPED", "NO_TEXT", "COMPLETED", "ABORTED"}
              /\ console = "All jobs completed." )
    /\ ((pc = "list" /\ JsonNames(data_folder) # {}) ~> (pc = "returned"))

C5_Witness ==
    /\ pc = "returned"
    /\ console = "All jobs completed."
    /\ Len(files) = 2
    /\ visited = files
    /\ fstate[1] = "ABORTED"
    /\ fstate[2] = "COMPLETED"

\* C6: when the extraction of a file yields no segment (the file cannot be
\* read, is not JSON, or has a shape with no text), nothing is raised to the
\* driver, which takes the file to NO_TEXT, posts no request, leaves the
\* result folder as it is and goes on to the next file.
C6_NoTextRecovery ==
    /\ [](\A e \in data_folder :
            ExtractTrace(e.content).raised => extract_text_from_json(e.content) = <<>>)
    /\ [][ (/\ pc = "loop"
            /\ idx <= Len(files)
            /\ ~result_folder[output_path].exists
            /\ extract_text_from_json(ContentOf(filename)) = <<>>) =>
               /\ fstate'[idx] = "NO_TEXT"
               /\ result_folder' = result_folder
               /\ ncalls' = ncalls
               /\ res' = res
               /\ pc' = "loop"
               /\ idx' = idx + 1
         ]_vars

C6_Witness ==
    /\ Len(files) = 2
    /\ ContentOf(files[1]) = Malformed
    /\ fstate[1] = "NO_TEXT"
    /\ ~result_folder[PathOf(1)].exists
    /\ fstate[2] = "COMPLETED"
    /\ ncalls = Len(res[2])

(***************************************************************************)
(* The dispatch as C7 words it: a rule is taken when its full shape        *)
(* condition holds, and a value of any shape gets the first such rule.     *)
(***************************************************************************)
NestedShape(data) ==
    /\ IsDict(data)
    /\ HasKey(data, "document")
    /\ IsDict(Get(data, "document"))
    /\ HasKey(Get(data, "document"), "pages")
    /\ IsList(Get(Get(data, "document"), "pages"))

RECURSIVE MappingContents(_)
MappingContents(items) ==
    IF items = <<>> THEN <<>>
    ELSE IF IsDict(items[1]) /\ HasKey(items[1], "content")
        THEN <<Str(Get(items[1], "content"))>> \o MappingContents(Tail(items))
    ELSE MappingContents(Tail(items))

FirstRuleSegments(data) ==
    IF NestedShape(data)
        THEN MappingContents(Get(Get(data, "document"), "pages").items)
    ELSE IF IsDict(data) /\ HasKey(data, "content") /\ IsList(Get(data, "content"))
        THEN CaseContentList(data).segs
    ELSE IF IsDict(data) THEN CaseFlatMapping(data).segs
    ELSE IF IsList(data) THEN CaseFlatSequence(data).segs
    ELSE CaseFallback(data).segs

\* C7: for every parsed JSON value the extraction returns the segments of the
\* first rule whose full shape condition holds (nested document only for a
\* mapping whose document is a mapping whose pages is a sequence, otherwise
\* content list, flat mapping, flat sequence, fallback), and the shape of a
\* parsed value never ends in the error handler.
C7_ShapeDispatch ==
    (extracted.done /\ doc.k = "json") =>
        /\ ~extracted.trace.raised
        /\ extracted.result = FirstRuleSegments(doc.v)

NonReserved(d) == {d.kv[i][1] : i \in 1..Len(d.kv)} \ ReservedKeys
Rank(d, k) == 1 + Cardinality({j \in NonReserved(d) : LexLess(j, k)})

\* C8: for a mapping handled by the flat-mapping rule the segments are the
\* stringified values of the keys other than total_pages, content and
\* document, one per key, in the lexicographic order of the key text:
\* page_2, page_1, total_pages gives A, B, and page_10 sorts before page_2.
C8_FlatMappingSorted ==
    /\ (extracted.done /\ extracted.trace.rule = "C") =>
          /\ ~extracted.trace.raised
          /\ Len(extracted.result) = Cardinality(NonReserved(doc.v))
          /\ \A k \in NonReserved(doc.v) :
                extracted.result[Rank(doc.v, k)] = Str(Get(doc.v, k))
    /\ (/\ extracted.done
        /\ doc = JsonFile(JDict(<<<<"page_2", JStr("B")>>, <<"page_1", JStr("A")>>,
                                  <<"total_pages", JInt(2)>>>>))) =>
          extracted.result = <<"A", "B">>
    /\ (/\ extracted.done
        /\ doc = JsonFile(JDict(<<<<"page_2", JStr("B")>>, <<"page_10", JStr("C")>>,
                                  <<"page_1", JStr("A")>>>>))) =>
          extracted.result = <<"A", "C", "B">>

C8_Witness ==
    /\ extracted.done
    /\ extracted.trace.rule = "C"
    /\ doc = JsonFile(JDict(<<<<"page_2", JStr("B")>>, <<"page_10", JStr("C")>>,
                              <<"page_1", JStr("A")>>>>))
    /\ extracted.result = <<"A", "C", "B">>

\* C9 as stated: for every input text, absent and empty included, cleaning the
\* cleaned text again changes nothing.
C9_Idempotent ==
    cleaned.n = 2 => cleaned.twice = cleaned.once

\* C9 amended: absent and empty input give the empty text, and cleaning the
\* cleaned text again changes nothing whenever the first pass left a text on
\* which no prefix or suffix pattern matches any more.
C9_IdempotentOnCleanText ==
    /\ (cleaned.n >= 1 /\ (raw.absent \/ raw.text = <<>>)) => cleaned.once = <<>>
    /\ (cleaned.n = 2 /\ ~AnyPatternMatches(cleaned.once)) =>
          cleaned.twice = cleaned.once

C9_Witness ==
    /\ cleaned.n = 2
    /\ raw = Text(<<TranslationWord, COLON, SP, "Hallo">>)
    /\ cleaned.once = <<"Hallo">>
    /\ cleaned.twice = <<"Hallo">>

\* The segment loop either goes on to the next segment or, after the last
\* one, completes the file and moves to the next file.
Continues ==
    IF seg_i + 1 < Len(segments)
        THEN /\ pc' = "segment"
             /\ idx' = idx
             /\ seg_i' = seg_i + 1
             /\ fstate'[idx] = "IN_PROGRESS"
        ELSE /\ pc' = "loop"
             /\ idx' = idx + 1
             /\ fstate'[idx] = "COMPLETED"

\* C10: the segment loop of a file stops early exactly when translate_segment
\* returns None.  After None on segment k no call is made for the segments
\* after k and the file is ABORTED; after an empty text on segment k nothing
\* is written for k, segment k+1 is still translated and the file can reach
\* COMPLETED.  Either way the driver goes on to the next file.
C10_AbortExactlyOnFailure ==
    /\ [](\A k \in Listed :
            /\ \A j \in 1..(Len(res[k]) - 1) : ~res[k][j].none
            /\ fstate[k] = "ABORTED" <=> (res[k] # <<>> /\ res[k][Len(res[k])].none)
            /\ fstate[k] = "COMPLETED" =>
                  /\ Len(res[k]) = Len(SegmentsOf(files[k]))
                  /\ \A j \in 1..Len(res[k]) : ~res[k][j].none
            /\ fstate[k] = "IN_PROGRESS" =>
                  /\ k = idx
                  /\ pc = "segment"
                  /\ Len(res[k]) = seg_i
                  /\ seg_i < Len(segments)
            /\ fstate[k] \in {"PENDING", "SKIPPED", "NO_TEXT"} => res[k] = <<>>
            /\ fstate[k] \in {"IN_PROGRESS", "COMPLETED", "ABORTED"} =>
                  Written(k) = WrittenPages(res[k], Len(res[k])))
    /\ [](ncalls = TotalCalls(res))
    /\ [][ pc = "segment" =>
             /\ ncalls' = ncalls + 1
             /\ Len(res'[idx]) = seg_i + 1
             /\ LET translation == res'[idx][seg_i + 1]
                IN  /\ translation.none =>
                          /\ fstate'[idx] = "ABORTED"
                          /\ idx' = idx + 1
                          /\ pc' = "loop"
                          /\ result_folder' = result_folder
                    /\ (~translation.none /\ translation.text = <<>>) =>
                          /\ result_folder' = result_folder
                          /\ Continues
                    /\ (~translation.none /\ translation.text # <<>>) =>
                          /\ result_folder' # result_folder
                          /\ Continues
         ]_vars

C10_Witness ==
    /\ Len(files) = 2
    /\ fstate[1] = "ABORTED"
    /\ Len(res[1]) < Len(SegmentsOf(files[1]))
    /\ fstate[2] = "COMPLETED"
    /\ \E j \in 1..(Len(res[2]) - 1) :
          /\ res[2][j] = Some(<<>>)
          /\ res[2][j + 1].text # <<>>

====
